---------------------------- MODULE Spec2Model ----------------------------
(***************************************************************************)
(* A model of mailstrip (src/mailstrip.go): Parse splits the plain-text    *)
(* body of an email into fragments and flags each one quoted, signature,   *)
(* forwarded and hidden; Email.String renders the fragments not hidden.    *)
(*                                                                         *)
(* A text is a sequence of characters, a character a string of length one. *)
(* src/mailstrip.go holds two revisions of the parser: lines 1-268 read    *)
(* the lines with a bufio.Reader and return an Email ("reader"), lines     *)
(* 270-506 read them with a bufio.Scanner and return (Email, error)        *)
(* ("scanner").  The variable `variant` says which one a behaviour runs.   *)
(***************************************************************************)
EXTENDS Integers, Sequences, FiniteSets, TLC

VARIABLES
    variant,        \* "reader" (lines 1-268) or "scanner" (lines 270-506)
    input,          \* the argument of the running Parse call
    text,           \* the local `text` of parser.Parse
    off,            \* the read offset of the bufio reader / scanner in text
    pc,             \* the position of parser.Parse
    foundVisible,   \* parser.foundVisible
    fragment,       \* parser.fragment: the open Fragment, or Nil
    fragments,      \* parser.fragments: the closed fragments, in closing order
    err,            \* the error of the line scanner (scanner.Err())
    calls,          \* the number of Parse calls started so far
    returned        \* the <<input, Email>> pairs the calls made so far returned

vars == <<variant, input, text, off, pc, foundVisible, fragment, fragments,
          err, calls, returned>>

\* the nil *Fragment, the nil error and bufio.ErrTooLong
Nil == [nil |-> TRUE]
NoError == "nil"
ErrTooLong == "bufio.Scanner: token too long"

(***************************************************************************)
(* Characters and the classes the regular expressions and the unicode      *)
(* predicates use.                                                         *)
(***************************************************************************)
NL == "\n"
CR == "\r"

Whitespace == {" ", "\t", NL, CR}

Digits == {"0", "1", "2", "3", "4", "5", "6", "7", "8", "9"}

LowerLetters ==
    {"a", "b", "c", "d", "e", "f", "g", "h", "i", "j", "k", "l", "m",
     "n", "o", "p", "q", "r", "s", "t", "u", "v", "w", "x", "y", "z"}

UpperLetters ==
    {"A", "B", "C", "D", "E", "F", "G", "H", "I", "J", "K", "L", "M",
     "N", "O", "P", "Q", "R", "S", "T", "U", "V", "W", "X", "Y", "Z"}

\* unicode.IsSpace
IsSpace(c) == c \in Whitespace

\* the class \s of Go's regexp
IsReSpace(c) == c \in Whitespace

\* the class \w of Go's regexp
IsWord(c) == c \in LowerLetters \cup UpperLetters \cup Digits \cup {"_"}

\* the class \d of Go's regexp
IsDigit(c) == c \in Digits

\* case folding of the flag (?i)
ToLower(c) ==
    CASE c = "A" -> "a"
      [] c = "B" -> "b"
      [] c = "C" -> "c"
      [] c = "D" -> "d"
      [] c = "E" -> "e"
      [] c = "F" -> "f"
      [] c = "G" -> "g"
      [] c = "H" -> "h"
      [] c = "I" -> "i"
      [] c = "J" -> "j"
      [] c = "K" -> "k"
      [] c = "L" -> "l"
      [] c = "M" -> "m"
      [] c = "N" -> "n"
      [] c = "O" -> "o"
      [] c = "P" -> "p"
      [] c = "Q" -> "q"
      [] c = "R" -> "r"
      [] c = "S" -> "s"
      [] c = "T" -> "t"
      [] c = "U" -> "u"
      [] c = "V" -> "v"
      [] c = "W" -> "w"
      [] c = "X" -> "x"
      [] c = "Y" -> "y"
      [] c = "Z" -> "z"
      [] OTHER -> c

(***************************************************************************)
(* The string functions of package strings that the parser calls.          *)
(***************************************************************************)
Last(s) == s[Len(s)]

\* reverseString
reverseString(s) == [i \in 1..Len(s) |-> s[Len(s) + 1 - i]]

\* reverseFragments
reverseFragments(f) == [i \in 1..Len(f) |-> f[Len(f) + 1 - i]]

HasPrefixAt(s, i, p) ==
    /\ i + Len(p) - 1 <= Len(s)
    /\ \A k \in 1..Len(p) : s[i + k - 1] = p[k]

HasPrefix(s, p) == HasPrefixAt(s, 1, p)

HasSuffix(s, p) == Len(p) <= Len(s) /\ HasPrefixAt(s, Len(s) - Len(p) + 1, p)

Contains(s, p) == \E i \in 1..(Len(s) + 1) : HasPrefixAt(s, i, p)

\* strings.Replace(s, old, new, -1) for a non-empty old: every
\* non-overlapping occurrence, from the left
RECURSIVE Replace(_, _, _)
Replace(s, old, new) ==
    IF Len(s) = 0 THEN <<>>
    ELSE IF HasPrefix(s, old)
         THEN new \o Replace(SubSeq(s, Len(old) + 1, Len(s)), old, new)
         ELSE <<Head(s)>> \o Replace(Tail(s), old, new)

\* a trim of one leading white space character only
TrimLeftOne(s) == IF Len(s) > 0 /\ IsSpace(Head(s)) THEN Tail(s) ELSE s

\* strings.TrimLeftFunc(s, unicode.IsSpace)
RECURSIVE TrimLeftSpace(_)
TrimLeftSpace(s) ==
    IF Len(s) > 0 /\ IsSpace(Head(s)) THEN TrimLeftSpace(Tail(s)) ELSE s

\* strings.TrimRightFunc(s, unicode.IsSpace)
RECURSIVE TrimRightSpace(_)
TrimRightSpace(s) ==
    IF Len(s) > 0 /\ IsSpace(Last(s))
    THEN TrimRightSpace(SubSeq(s, 1, Len(s) - 1))
    ELSE s

\* strings.TrimSpace
TrimSpace(s) == TrimLeftSpace(TrimRightSpace(s))

\* strings.Join(a, sep)
RECURSIVE Join(_, _)
Join(a, sep) ==
    IF Len(a) = 0 THEN <<>>
    ELSE IF Len(a) = 1 THEN a[1]
    ELSE a[1] \o sep \o Join(Tail(a), sep)

(***************************************************************************)
(* The regular expressions of src/mailstrip.go:47-60 (reader) and :316-321 *)
(* (scanner).  The line patterns are matched against one line of the       *)
(* reversed text, which holds no newline, so ^ and $ are the line's ends.  *)
(***************************************************************************)
\* reverseString("Sent from my"), after the space the pattern puts before it
SentFromMy == <<"y", "m", " ", "m", "o", "r", "f", " ", "t", "n", "e", "S">>

\* reverseString("Forwarded message")
ForwardedMessage == <<"e", "g", "a", "s", "s", "e", "m", " ", "d", "e", "d", "r", "a", "w", "r", "o", "F">>

Wrote == <<"w", "r", "o", "t", "e", ":">>

\* (\w+\s*){1,3} against the whole of g: one to three runs of word
\* characters, each followed by any white space
WordGroups(g) ==
    /\ Len(g) > 0
    /\ IsWord(g[1])
    /\ \A i \in 1..Len(g) : IsWord(g[i]) \/ IsReSpace(g[i])
    /\ Cardinality({i \in 2..Len(g) : IsWord(g[i]) /\ ~IsWord(g[i - 1])}) <= 2

\* sigRegexp.MatchString(line):
\*   (--|__|(?m)\w-$)|(?m)(^(\w+\s*){1,3} ym morf tneS$)
sigRegexp(line) ==
    \/ Contains(line, <<"-", "-">>)
    \/ Contains(line, <<"_", "_">>)
    \/ Len(line) >= 2 /\ Last(line) = "-" /\ IsWord(line[Len(line) - 1])
    \/ /\ HasSuffix(line, <<" ">> \o SentFromMy)
       /\ WordGroups(SubSeq(line, 1, Len(line) - Len(SentFromMy) - 1))

\* fwdRegexp.MatchString(line):  (?mi)^--+\s*egassem dedrawroF\s*--+$
fwdRegexp(line) ==
    LET n == Len(line)
        m == Len(ForwardedMessage)
        folded == [i \in 1..n |-> ToLower(line[i])]
        phrase == [i \in 1..m |-> ToLower(ForwardedMessage[i])]
    IN  \E a \in 2..n : \E b \in a..n : \E c \in (b + m)..n :
            /\ \A k \in 1..a : line[k] = "-"
            /\ \A k \in (a + 1)..b : IsReSpace(line[k])
            /\ HasPrefixAt(folded, b + 1, phrase)
            /\ \A k \in (b + m + 1)..c : IsReSpace(line[k])
            /\ n - c >= 2
            /\ \A k \in (c + 1)..n : line[k] = "-"

\* quotedRegexp.MatchString(line):  (?m)(>+)$
quotedRegexp(line) == Len(line) > 0 /\ Last(line) = ">"

\* the first alternative of quoteHeaderRegexp:  ^:etorw.*nO$
OnWroteHeader(line) ==
    /\ Len(line) >= Len(Wrote) + 2
    /\ HasPrefix(line, reverseString(Wrote))
    /\ HasSuffix(line, <<"n", "O">>)

\* the second alternative of quoteHeaderRegexp:  ^>.*\d{2}/\d{2}/\d{4}$
DateHeader(line) ==
    LET n == Len(line)
    IN  /\ n >= 11
        /\ line[1] = ">"
        /\ IsDigit(line[n - 9]) /\ IsDigit(line[n - 8]) /\ line[n - 7] = "/"
        /\ IsDigit(line[n - 6]) /\ IsDigit(line[n - 5]) /\ line[n - 4] = "/"
        /\ IsDigit(line[n - 3]) /\ IsDigit(line[n - 2])
        /\ IsDigit(line[n - 1]) /\ IsDigit(line[n])

\* parser.quoteHeader: quoteHeaderRegexp.MatchString(line); the scanner
\* revision's pattern has the first alternative only
quoteHeader(v, line) ==
    \/ OnWroteHeader(line)
    \/ v = "reader" /\ DateHeader(line)

\* ^ and $ under the flag (?m), as positions of the whole text
LineStart(t, p) == p = 1 \/ t[p - 1] = NL
LineEnd(t, q) == q = Len(t) \/ t[q + 1] = NL

SetMin(S) == CHOOSE x \in S : \A y \in S : x <= y
SetMax(S) == CHOOSE x \in S : \A y \in S : y <= x

\* the ends q of the matches of  (?sm)^(On\s(?:.+)wrote:)$  that start at p
OnWroteEnds(t, p) ==
    IF /\ LineStart(t, p)
       /\ p + 2 <= Len(t)
       /\ t[p] = "O" /\ t[p + 1] = "n" /\ IsReSpace(t[p + 2])
    THEN {q \in (p + 3 + Len(Wrote))..Len(t) :
             HasPrefixAt(t, q - Len(Wrote) + 1, Wrote) /\ LineEnd(t, q)}
    ELSE {}

\* the ends q of the matches of
\*   (?sm)^(\d{4}/\d{2}/\d{2} .*<.+@.+>)$  that start at p
DateEnds(t, p) ==
    IF /\ LineStart(t, p)
       /\ p + 10 <= Len(t)
       /\ \A k \in {0, 1, 2, 3, 5, 6, 8, 9} : IsDigit(t[p + k])
       /\ t[p + 4] = "/" /\ t[p + 7] = "/" /\ t[p + 10] = " "
    THEN {q \in (p + 11)..Len(t) :
             /\ t[q] = ">" /\ LineEnd(t, q)
             /\ \E i \in (p + 11)..q : \E j \in (i + 2)..(q - 2) :
                    t[i] = "<" /\ t[j] = "@"}
    ELSE {}

\* r.FindStringSubmatch(text)[1]: the leftmost match, its greedy .+ and .*
\* taking the longest; <<>> stands for no match (a match is never empty)
FindOnWrote(t) ==
    LET starts == {p \in 1..Len(t) : OnWroteEnds(t, p) # {}}
    IN  IF starts = {} THEN <<>>
        ELSE SubSeq(t, SetMin(starts), SetMax(OnWroteEnds(t, SetMin(starts))))

FindDate(t) ==
    LET starts == {p \in 1..Len(t) : DateEnds(t, p) # {}}
    IN  IF starts = {} THEN <<>>
        ELSE SubSeq(t, SetMin(starts), SetMax(DateEnds(t, SetMin(starts))))

\* the body of the loop over multiLineReplyHeaderRegexps (mailstrip.go:69-72)
CollapseMatch(t, m) ==
    IF m = <<>> THEN t ELSE Replace(t, m, Replace(m, <<NL>>, <<>>))

\* mailstrip.go:66-73; the scanner revision (:331-334) has the first
\* pattern only
CollapseReplyHeaders(v, t) ==
    LET t1 == CollapseMatch(t, FindOnWrote(t))
    IN  IF v = "reader" THEN CollapseMatch(t1, FindDate(t1)) ELSE t1

\* mailstrip.go:64
NormalizeLineEndings(t) == Replace(t, <<CR, NL>>, <<NL>>)


(***************************************************************************)
(* Fragment and parser (mailstrip.go:23-33, 229-243).  A parser value is   *)
(* the record of the three fields; a Fragment whose lines were set to nil  *)
(* by finish has lines = <<>>.                                             *)
(***************************************************************************)
\* a new fragment with an empty line buffer
NewFragmentEmpty(isQuoted, line) ==
    [lines |-> <<>>, content |-> <<>>, hidden |-> FALSE,
     signature |-> FALSE, forwarded |-> FALSE, quoted |-> isQuoted]

\* &Fragment{quoted: isQuoted, lines: []string{line}}
NewFragment(isQuoted, line) ==
    [lines |-> <<line>>, content |-> <<>>, hidden |-> FALSE,
     signature |-> FALSE, forwarded |-> FALSE, quoted |-> isQuoted]

\* a parser that keeps foundVisible from the call before
StaleParser ==
    [foundVisible |-> foundVisible, fragment |-> Nil, fragments |-> <<>>]

\* &parser{}
NewParser == [foundVisible |-> FALSE, fragment |-> Nil, fragments |-> <<>>]

\* finish without the second reverseString
finishNoReverse(f) ==
    [f EXCEPT !.content = Join(f.lines, <<NL>>), !.lines = <<>>]

\* Fragment.finish
finish(f) ==
    [f EXCEPT !.content = reverseString(Join(f.lines, <<NL>>)),
              !.lines = <<>>]

\* the hidden rule with forwarded fragments hidden like signatures
HiddenRuleForwarded(f) ==
    f.quoted \/ f.signature \/ f.forwarded \/ TrimSpace(f.content) = <<>>

\* the hidden rule of parser.finishFragment (mailstrip.go:183-184)
HiddenRule(f) ==
    f.quoted \/ f.signature \/ TrimSpace(f.content) = <<>>

\* finishFragment without the test of foundVisible
finishFragmentNotSticky(p) ==
    IF p.fragment # Nil
    THEN LET f == finish(p.fragment)
             hide == HiddenRule(f)
         IN  [foundVisible |-> p.foundVisible \/ ~hide,
              fragment |-> Nil,
              fragments |-> Append(p.fragments, [f EXCEPT !.hidden = hide])]
    ELSE [p EXCEPT !.fragment = Nil]

\* finishFragment with the closed fragment put in front of the list
finishFragmentPrepends(p) ==
    IF p.fragment # Nil
    THEN LET f == finish(p.fragment)
             hide == ~p.foundVisible /\ HiddenRule(f)
         IN  [foundVisible |-> p.foundVisible \/ ~hide,
              fragment |-> Nil,
              fragments |-> <<[f EXCEPT !.hidden = hide]>> \o p.fragments]
    ELSE [p EXCEPT !.fragment = Nil]

\* parser.finishFragment
finishFragment(p) ==
    IF p.fragment # Nil
    THEN LET f == finish(p.fragment)
             hide == ~p.foundVisible /\ HiddenRule(f)
         IN  [foundVisible |-> p.foundVisible \/ ~hide,
              fragment |-> Nil,
              fragments |-> Append(p.fragments, [f EXCEPT !.hidden = hide])]
    ELSE [p EXCEPT !.fragment = Nil]

\* mailstrip.go:106-110: the line scanLine goes on with
TrimLine(line) == IF sigRegexp(line) THEN line ELSE TrimLeftSpace(line)

\* the blank-line check made on every line, blank or not
BoundaryCheckAnyLine(v, p, line) ==
    IF p.fragment # Nil
    THEN LET lastLine == Last(p.fragment.lines)
         IN  IF v = "reader" /\ fwdRegexp(lastLine)
             THEN finishFragment([p EXCEPT !.fragment.forwarded = TRUE])
             ELSE IF sigRegexp(lastLine)
                  THEN finishFragment([p EXCEPT !.fragment.signature = TRUE])
                  ELSE p
    ELSE p

\* the blank-line check with the signature test before the forwarded test
BoundaryCheckSignatureFirst(v, p, line) ==
    IF p.fragment # Nil /\ line = <<>>
    THEN LET lastLine == Last(p.fragment.lines)
         IN  IF sigRegexp(lastLine)
             THEN finishFragment([p EXCEPT !.fragment.signature = TRUE])
             ELSE IF v = "reader" /\ fwdRegexp(lastLine)
                  THEN finishFragment([p EXCEPT !.fragment.forwarded = TRUE])
                  ELSE p
    ELSE p

\* mailstrip.go:116-129: the blank line that closes a forwarded or a
\* signature fragment (the scanner revision, :373-379, knows no forwarded)
BoundaryCheck(v, p, line) ==
    IF p.fragment # Nil /\ line = <<>>
    THEN LET lastLine == Last(p.fragment.lines)
         IN  IF v = "reader" /\ fwdRegexp(lastLine)
             THEN finishFragment([p EXCEPT !.fragment.forwarded = TRUE])
             ELSE IF sigRegexp(lastLine)
                  THEN finishFragment([p EXCEPT !.fragment.signature = TRUE])
                  ELSE p
    ELSE p

\* scanLine without the propagation of the quote header
NoPropagation(v, p, line) == p

\* mailstrip.go:131-137: a quote header makes the open fragment quoted
\* (not in the scanner revision)
PropagateQuoteHeader(v, p, line) ==
    IF v = "reader" /\ p.fragment # Nil /\ quoteHeader(v, line)
    THEN [p EXCEPT !.fragment.quoted = TRUE]
    ELSE p

\* the continuation test with a fragment without quote taking every line
ContinuesUnquotedTakesAll(v, p, line) ==
    /\ p.fragment # Nil
    /\ \/ ~p.fragment.quoted
       \/ p.fragment.quoted = quotedRegexp(line)
       \/ p.fragment.quoted /\ (quoteHeader(v, line) \/ line = <<>>)

\* the continuation test with a quoted fragment taking every line
ContinuesQuotedTakesAll(v, p, line) ==
    /\ p.fragment # Nil
    /\ \/ p.fragment.quoted = quotedRegexp(line)
       \/ p.fragment.quoted

\* the continuation test with a blank line never added to the fragment
ContinuesNotBlank(v, p, line) ==
    /\ p.fragment # Nil
    /\ line # <<>>
    /\ \/ p.fragment.quoted = quotedRegexp(line)
       \/ p.fragment.quoted /\ quoteHeader(v, line)

\* the continuation test without its second disjunct
ContinuesSameQuoted(v, p, line) ==
    /\ p.fragment # Nil
    /\ p.fragment.quoted = quotedRegexp(line)

\* mailstrip.go:142-144: whether the line is added to the open fragment
Continues(v, p, line) ==
    /\ p.fragment # Nil
    /\ \/ p.fragment.quoted = quotedRegexp(line)
       \/ p.fragment.quoted /\ (quoteHeader(v, line) \/ line = <<>>)

\* mailstrip.go:139-151
AddOrStart(v, p, line) ==
    IF Continues(v, p, line)
    THEN [p EXCEPT !.fragment.lines = Append(@, line)]
    ELSE [finishFragment(p) EXCEPT
              !.fragment = NewFragment(quotedRegexp(line), line)]

\* scanLine returning after the blank line has closed a fragment
scanLineReturnsAtBoundary(v, p, rawLine) ==
    LET line == TrimLine(rawLine)
        b == BoundaryCheck(v, p, line)
    IN  IF p.fragment # Nil /\ b.fragment = Nil
        THEN b
        ELSE AddOrStart(v, PropagateQuoteHeader(v, b, line), line)

\* parser.scanLine
scanLine(v, p, rawLine) ==
    LET line == TrimLine(rawLine)
    IN  AddOrStart(v, PropagateQuoteHeader(v, BoundaryCheck(v, p, line), line),
                   line)

(***************************************************************************)
(* Reading the lines of the reversed text.                                 *)
(***************************************************************************)
\* the offset of the first newline of t at or after offset o (offsets count
\* the characters already read), or 0
RECURSIVE NextNewline(_, _)
NextNewline(t, o) ==
    IF o >= Len(t) THEN 0
    ELSE IF t[o + 1] = NL THEN o + 1
    ELSE NextNewline(t, o + 1)

\* ReadBytes reporting the end at the last newline: the empty line after it
\* is not returned
ReadLineDropsLastEmpty(t, o) ==
    LET n == NextNewline(t, o)
    IN  IF n = 0
        THEN [line |-> SubSeq(t, o + 1, Len(t)), off |-> Len(t), eof |-> TRUE]
        ELSE [line |-> SubSeq(t, o + 1, n - 1), off |-> n, eof |-> n = Len(t)]

\* reader.ReadBytes('\n') followed by strings.TrimRight(line, "\n")
\* (mailstrip.go:82-84): the line, the offset after it, and e == io.EOF
ReadLine(t, o) ==
    LET n == NextNewline(t, o)
    IN  IF n = 0
        THEN [line |-> SubSeq(t, o + 1, Len(t)), off |-> Len(t), eof |-> TRUE]
        ELSE [line |-> SubSeq(t, o + 1, n - 1), off |-> n, eof |-> FALSE]

\* bufio's dropCR
dropCR(l) ==
    IF Len(l) > 0 /\ Last(l) = CR THEN SubSeq(l, 1, Len(l) - 1) ELSE l

\* the size of the scaled-down line buffer of bufio.Scanner
\* (bufio.MaxScanTokenSize is 64 * 1024)
MaxScanTokenSize == 24

\* the overflow test with > for >=
TokenLonger(t, o) ==
    LET n == NextNewline(t, o)
    IN  (IF n = 0 THEN Len(t) - o ELSE n - 1 - o) > MaxScanTokenSize

\* whether the Scanner's buffer overflows before the line at offset o ends:
\* the buffer is full and holds no newline
TokenTooLong(t, o) ==
    LET n == NextNewline(t, o)
    IN  (IF n = 0 THEN Len(t) - o ELSE n - 1 - o) >= MaxScanTokenSize

\* scanner.Scan() and scanner.Text() with bufio.ScanLines
\* (mailstrip.go:341-343): ok is Scan's result
ScanToken(t, o) ==
    LET n == NextNewline(t, o)
    IN  IF o >= Len(t)
        THEN [ok |-> FALSE, line |-> <<>>, off |-> o, err |-> NoError]
        ELSE IF TokenTooLong(t, o)
        THEN [ok |-> FALSE, line |-> <<>>, off |-> o, err |-> ErrTooLong]
        ELSE IF n = 0
        THEN [ok |-> TRUE, line |-> dropCR(SubSeq(t, o + 1, Len(t))),
              off |-> Len(t), err |-> NoError]
        ELSE [ok |-> TRUE, line |-> dropCR(SubSeq(t, o + 1, n - 1)),
              off |-> n, err |-> NoError]


(***************************************************************************)
(* The texts Parse is called with.  A library text is up to MaxLines lines *)
(* of the library below, joined by newlines (a last empty line is a text   *)
(* that ends with a newline); a free text is any sequence of up to MaxFree *)
(* characters of FreeAlphabet.                                             *)
(***************************************************************************)
LBlank == <<>>
LPlain == <<"a">>
LTrail == <<"a", " ">>
LQuoted == <<">", "a">>
LSigStart == <<"-", "a">>
LDashes == <<"-", "-">>
LHeader == <<"O", "n", " ", "a", " ", "w", "r", "o", "t", "e", ":">>
LOn == <<"O", "n", " ", "a">>
LWrote == <<"b", " ", "w", "r", "o", "t", "e", ":">>
LForwarded == <<"-", "-", " ", "F", "o", "r", "w", "a", "r", "d", "e", "d", " ", "m", "e", "s", "s", "a", "g", "e", " ", "-", "-">>
LSent == <<"S", "e", "n", "t", " ", "f", "r", "o", "m", " ", "m", "y", " ", "a">>
LDate == <<"2", "0", "1", "3", "/", "1", "1", "/", "1", "3", " ", "a", " ", "<", "a", "@", "a", ">">>
LWroteTrail == <<"b", " ", "w", "r", "o", "t", "e", ":", " ">>
LCr == <<"a", "\r">>

LibLines ==
    {LBlank, LPlain, LTrail, LQuoted, LSigStart, LDashes, LHeader, LOn,
     LWrote, LWroteTrail, LForwarded, LSent, LDate, LCr}

MaxLines == 3
MaxFree == 4

FreeAlphabet == {"a", " ", ">", "-", NL, CR}

SeqsUpTo(S, n) == UNION {[1..k -> S] : k \in 0..n}

TextsOf(lines, n) == {Join(ls, <<NL>>) : ls \in SeqsUpTo(lines, n) \ {<<>>}}

LibTexts == TextsOf(LibLines, MaxLines)

FreeTexts == SeqsUpTo(FreeAlphabet, MaxFree)

Texts == LibTexts \cup FreeTexts

\* top-posted replies (example_test.go:8-17): plain reply lines, a blank
\* line, a signature-start line, a blank line, an "On ... wrote:" header,
\* quoted lines, and a newline at the end
LPlainB == <<"b", " ", "c">>
LQuotedBare == <<">">>
LQuotedWrote == <<">", " ", "a", " ", "w", "r", "o", "t", "e", ":">>
LHeaderB == <<"O", "n", " ", "0", "1", "/", "0", "3", "/", "1", "1", " ", "b", " ", "w", "r", "o", "t", "e", ":">>

MaxPlain == 2
MaxQuotedLines == 2

PlainLines == {LPlain, LTrail, LPlainB, LOn}
SigStartLines == {LSigStart, LDashes}
HeaderLines == {LHeader, LHeaderB}
QuotedLines == {LQuoted, LQuotedBare, LQuotedWrote}

TopPostTexts ==
    {Join(pl \o <<LBlank, sg, LBlank, hd>> \o ql \o <<LBlank>>, <<NL>>) :
        pl \in SeqsUpTo(PlainLines, MaxPlain) \ {<<>>},
        sg \in SigStartLines,
        hd \in HeaderLines,
        ql \in SeqsUpTo(QuotedLines, MaxQuotedLines) \ {<<>>}}

\* texts with lines around the size of the Scanner's buffer
LongLine(n) == [i \in 1..n |-> "a"]

MaxLongLines == 2

LongLines ==
    {LBlank, LPlain, LQuoted, LSigStart,
     LongLine(MaxScanTokenSize - 1), LongLine(MaxScanTokenSize),
     LongLine(MaxScanTokenSize + 1), <<CR>> \o LongLine(MaxScanTokenSize - 1)}

LongTexts == TextsOf(LongLines, MaxLongLines) \cup {<<>>}

\* the texts of a sequence of Parse calls: some with a visible fragment,
\* some with hidden ones only
MaxCalls == 3

CallTexts ==
    {<<>>, LPlain, LQuoted, LSigStart,
     Join(<<LPlain, LQuoted>>, <<NL>>), Join(<<LQuoted, LPlain>>, <<NL>>),
     Join(<<LPlain, LBlank, LSigStart>>, <<NL>>),
     Join(<<LOn, LWrote, LPlain>>, <<NL>>)}

(***************************************************************************)
(* Parse as a state machine: one action per statement of parser.Parse.     *)
(***************************************************************************)
\* the parser value the variables hold
P == [foundVisible |-> foundVisible, fragment |-> fragment,
      fragments |-> fragments]

InitOf(variants, texts) ==
    /\ variant \in variants
    /\ input \in texts
    /\ text = <<>>
    /\ off = 0
    /\ pc = "call"
    /\ foundVisible = FALSE
    /\ fragment = Nil
    /\ fragments = <<>>
    /\ err = NoError
    /\ calls = 0
    /\ returned = {}

Init == InitOf({"reader"}, Texts)

\* Parse (mailstrip.go:18-21): p := &parser{}; p.Parse(text)
Call ==
    /\ pc = "call"
    /\ foundVisible' = NewParser.foundVisible
    /\ fragment' = NewParser.fragment
    /\ fragments' = NewParser.fragments
    /\ text' = input
    /\ off' = 0
    /\ err' = NoError
    /\ calls' = calls + 1
    /\ pc' = "normalize"
    /\ UNCHANGED <<variant, input, returned>>

\* mailstrip.go:64
Normalize ==
    /\ pc = "normalize"
    /\ text' = NormalizeLineEndings(text)
    /\ pc' = "collapse"
    /\ UNCHANGED <<variant, input, off, foundVisible, fragment, fragments,
                   err, calls, returned>>

\* mailstrip.go:66-73
Collapse ==
    /\ pc = "collapse"
    /\ text' = CollapseReplyHeaders(variant, text)
    /\ pc' = "reverse"
    /\ UNCHANGED <<variant, input, off, foundVisible, fragment, fragments,
                   err, calls, returned>>

\* mailstrip.go:77-80
Reverse ==
    /\ pc = "reverse"
    /\ text' = reverseString(text)
    /\ off' = 0
    /\ pc' = "scan"
    /\ UNCHANGED <<variant, input, foundVisible, fragment, fragments, err,
                   calls, returned>>

\* the loop of the reader revision leaving at io.EOF before it scans the
\* line read last
NextLineBreaksFirst(v, t, o) ==
    IF v = "reader"
    THEN LET r == ReadLine(t, o)
         IN  [scan |-> ~r.eof, line |-> r.line, off |-> r.off, last |-> r.eof,
              err |-> NoError]
    ELSE LET k == ScanToken(t, o)
         IN  [scan |-> k.ok, line |-> k.line, off |-> k.off, last |-> ~k.ok,
              err |-> k.err]

\* one round of the loop that reads the lines: mailstrip.go:81-91 reads
\* with ReadBytes and scans every line, the last one included;
\* mailstrip.go:342-344 scans the tokens of a bufio.Scanner.
\* scan: whether scanLine is called; last: whether the loop ends
NextLine(v, t, o) ==
    IF v = "reader"
    THEN LET r == ReadLine(t, o)
         IN  [scan |-> TRUE, line |-> r.line, off |-> r.off, last |-> r.eof,
              err |-> NoError]
    ELSE LET k == ScanToken(t, o)
         IN  [scan |-> k.ok, line |-> k.line, off |-> k.off, last |-> ~k.ok,
              err |-> k.err]

ScanLine ==
    /\ pc = "scan"
    /\ LET r == NextLine(variant, text, off)
           q == IF r.scan THEN scanLine(variant, P, r.line) ELSE P
       IN  /\ foundVisible' = q.foundVisible
           /\ fragment' = q.fragment
           /\ fragments' = q.fragments
           /\ off' = r.off
           /\ err' = r.err
           /\ pc' = IF r.last THEN "finish" ELSE "scan"
    /\ UNCHANGED <<variant, input, text, calls, returned>>

\* mailstrip.go:96
Finish ==
    /\ pc = "finish"
    /\ LET q == finishFragment(P)
       IN  /\ foundVisible' = q.foundVisible
           /\ fragment' = q.fragment
           /\ fragments' = q.fragments
    /\ pc' = "return"
    /\ UNCHANGED <<variant, input, text, off, err, calls, returned>>

\* mailstrip.go:99-100: after it, fragments is the Email Parse returns
Return ==
    /\ pc = "return"
    /\ fragments' = reverseFragments(fragments)
    /\ returned' = returned \cup {<<input, fragments'>>}
    /\ pc' = "done"
    /\ UNCHANGED <<variant, input, text, off, foundVisible, fragment, err,
                   calls>>

Next ==
    \/ Call
    \/ Normalize
    \/ Collapse
    \/ Reverse
    \/ ScanLine
    \/ Finish
    \/ Return

Spec == Init /\ [][Next]_vars

\* the caller calls Parse again, with another text
Again ==
    /\ pc = "done"
    /\ calls < MaxCalls
    /\ input' \in CallTexts
    /\ pc' = "call"
    /\ UNCHANGED <<variant, text, off, foundVisible, fragment, fragments,
                   err, calls, returned>>

NextCalls ==
    \/ Next
    \/ Again

\* sequences of up to MaxCalls calls of Parse
SpecCalls == InitOf({"reader"}, CallTexts) /\ [][NextCalls]_vars

\* both revisions of Parse, called with lines around the buffer size
SpecBoth == InitOf({"reader", "scanner"}, LongTexts) /\ [][Next]_vars

\* Parse called with the top-posted replies
SpecTopPost == InitOf({"reader"}, TopPostTexts) /\ [][Next]_vars

(***************************************************************************)
(* Email.String and Parse as functions of the text.                        *)
(***************************************************************************)
\* the loop of Email.String without the test of Hidden()
AllContents(e) == [i \in 1..Len(e) |-> e[i].content]

\* the loop of Email.String (mailstrip.go:214-221)
RECURSIVE VisibleContents(_)
VisibleContents(e) ==
    IF Len(e) = 0 THEN <<>>
    ELSE IF Head(e).hidden THEN VisibleContents(Tail(e))
    ELSE <<Head(e).content>> \o VisibleContents(Tail(e))

\* Email.String
String(e) == TrimRightSpace(Join(VisibleContents(e), <<NL>>))

\* the loop of parser.Parse from offset o on
RECURSIVE ScanAll(_, _, _, _)
ScanAll(v, p, t, o) ==
    LET r == NextLine(v, t, o)
        q == IF r.scan THEN scanLine(v, p, r.line) ELSE p
    IN  IF r.last THEN q ELSE ScanAll(v, q, t, r.off)

\* the Email of parser.Parse(t) on a new parser
ParseEmail(v, t) ==
    LET rev == reverseString(CollapseReplyHeaders(v, NormalizeLineEndings(t)))
    IN  reverseFragments(finishFragment(ScanAll(v, NewParser, rev, 0)).fragments)


(***************************************************************************)
(* The properties.  Email is the value Parse has returned.                 *)
(***************************************************************************)
Returned == pc = "done"
Email == fragments

\* the text after the normalizer (mailstrip.go:64-73)
Normalized(v, t) == CollapseReplyHeaders(v, NormalizeLineEndings(t))

\* the lines of a text, split at its newlines
RECURSIVE Split(_)
Split(t) ==
    IF \A i \in 1..Len(t) : t[i] # NL THEN <<t>>
    ELSE LET n == SetMin({i \in 1..Len(t) : t[i] = NL})
         IN  <<SubSeq(t, 1, n - 1)>> \o Split(SubSeq(t, n + 1, Len(t)))

Contents(e) == [i \in 1..Len(e) |-> e[i].content]

Blank(f) == \A i \in 1..Len(f.content) : IsSpace(f.content[i])

\* C1: the hidden fragments of the returned Email are a suffix of it: a
\* fragment after a hidden fragment is hidden.
C1_HiddenIsSuffix ==
    Returned =>
        \A i \in 1..Len(Email) : \A j \in 1..Len(Email) :
            i < j /\ Email[i].hidden => Email[j].hidden

\* a quoted fragment left visible above a visible one, hidden ones below
C1_Witness ==
    /\ Returned
    /\ Len(Email) >= 3
    /\ Email[1].quoted /\ ~Email[1].hidden
    /\ Email[Len(Email)].hidden

\* C2 as claimed: the contents of the fragments, joined by single newlines,
\* are the normalized input.
C2_RoundTripExact ==
    Returned => Join(Contents(Email), <<NL>>) = Normalized(variant, input)

\* what scanLine keeps of a line of the normalized text: all of it when its
\* reversal matches the signature pattern, else all but its trailing space
KeptOfLine(l) ==
    IF sigRegexp(reverseString(l)) THEN l ELSE TrimRightSpace(l)

KeptLines(t) == LET ls == Split(t) IN [i \in 1..Len(ls) |-> KeptOfLine(ls[i])]

\* C2 amended: the contents of the fragments, joined by single newlines,
\* are the lines of the normalized input joined by newlines, each line that
\* does not match the signature pattern without its trailing white space.
C2_RoundTripTrimmed ==
    Returned =>
        Join(Contents(Email), <<NL>>)
            = Join(KeptLines(Normalized(variant, input)), <<NL>>)

\* several fragments, and a line that lost trailing white space
C2_Witness ==
    /\ Returned
    /\ Len(Email) >= 2
    /\ Join(Contents(Email), <<NL>>) # Normalized(variant, input)

\* the contents of the visible fragments among the first n, a newline
\* between two of them
RECURSIVE VisibleText(_, _)
VisibleText(e, n) ==
    IF n = 0 THEN <<>>
    ELSE IF e[n].hidden THEN VisibleText(e, n - 1)
    ELSE IF \E i \in 1..(n - 1) : ~e[i].hidden
         THEN VisibleText(e, n - 1) \o <<NL>> \o e[n].content
         ELSE e[n].content

\* C3: String() is the visible contents joined by newlines less the white
\* space at its end, and empty when no fragment is visible.
C3_StringIsVisibleText ==
    Returned =>
        LET r == String(Email)
            full == VisibleText(Email, Len(Email))
        IN  /\ Len(r) <= Len(full)
            /\ r = SubSeq(full, 1, Len(r))
            /\ \A i \in (Len(r) + 1)..Len(full) : IsSpace(full[i])
            /\ Len(r) > 0 => ~IsSpace(r[Len(r)])
            /\ (\A i \in 1..Len(Email) : Email[i].hidden) => r = <<>>

\* a hidden fragment is left out and trailing white space is cut
C3_Witness ==
    /\ Returned
    /\ \E i \in 1..Len(Email) : Email[i].hidden /\ ~Blank(Email[i])
    /\ String(Email) # <<>>
    /\ String(Email) # VisibleText(Email, Len(Email))

\* C5: no fragment of the returned Email is both forwarded and hidden.
C5_ForwardedIsVisible ==
    Returned =>
        \A i \in 1..Len(Email) : ~(Email[i].forwarded /\ Email[i].hidden)

\* a forwarded fragment with a hidden fragment below it
C5_Witness ==
    /\ Returned
    /\ \E i \in 1..Len(Email) : \E j \in 1..Len(Email) :
           i < j /\ Email[i].forwarded /\ Email[j].hidden

\* C10: a fragment of the returned Email is hidden exactly when it and
\* every fragment after it is quoted, a signature or blank.
C10_HiddenIsBackwardPass ==
    Returned =>
        \A i \in 1..Len(Email) :
            Email[i].hidden <=>
                \A j \in i..Len(Email) :
                    Email[j].quoted \/ Email[j].signature \/ Blank(Email[j])

\* a quoted fragment and a signature hidden below a visible fragment, a
\* quoted one visible above it
C10_Witness ==
    /\ Returned
    /\ \E i \in 1..Len(Email) : Email[i].quoted /\ ~Email[i].hidden
    /\ \E i \in 1..Len(Email) : Email[i].hidden /\ ~Blank(Email[i])


\* the parts of a top-posted reply t
FirstBlank(ls) == SetMin({i \in 1..Len(ls) : ls[i] = <<>>})
PlainPart(t) == LET ls == Split(t) IN SubSeq(ls, 1, FirstBlank(ls) - 1)
SignaturePart(t) == LET ls == Split(t) IN ls[FirstBlank(ls) + 1]
QuotePart(t) ==
    LET ls == Split(t) IN SubSeq(ls, FirstBlank(ls) + 3, Len(ls) - 1)

\* C4: for a top-posted reply (plain reply lines, a blank line, a
\* signature-start line, a blank line, an "On ... wrote:" header, quoted
\* lines, a final newline) String() is the plain reply lines less their
\* trailing white space, the signature line is a hidden signature fragment,
\* and the header and the quoted lines (as the normalizer leaves them) lie
\* in one hidden quoted fragment.
C4_TopPost ==
    Returned /\ input \in TopPostTexts =>
        /\ String(Email)
               = TrimRightSpace(Join([i \in 1..Len(PlainPart(input)) |->
                     TrimRightSpace(PlainPart(input)[i])], <<NL>>))
        /\ \E i \in 1..Len(Email) :
               /\ Email[i].signature /\ Email[i].hidden
               /\ Email[i].content = SignaturePart(input)
        /\ \E i \in 1..Len(Email) :
               /\ Email[i].quoted /\ Email[i].hidden
               /\ Contains(Email[i].content,
                           Join(QuotePart(Normalized(variant, input)), <<NL>>))


\* the lines the line loop of Parse reads for the input t
ScannedLines(v, t) == Split(reverseString(Normalized(v, t)))

ScannedLine == TrimLine(NextLine(variant, text, off).line)

\* C7: a quote header scanned while a fragment is open makes that fragment
\* quoted and is added to it, and no fragment is closed; a quoted fragment
\* closed while no visible fragment has been found is hidden.
C7_QuoteHeaderJoinsOpenFragment ==
    /\ [][(/\ pc = "scan"
           /\ NextLine(variant, text, off).scan
           /\ fragment # Nil
           /\ quoteHeader(variant, ScannedLine))
          => (/\ fragment' # Nil
              /\ fragment'.quoted
              /\ fragment'.lines = Append(fragment.lines, ScannedLine)
              /\ fragments' = fragments)]_vars
    /\ [][(/\ pc \in {"scan", "finish"}
           /\ fragment # Nil
           /\ fragment.quoted
           /\ ~foundVisible
           /\ Len(fragments') = Len(fragments) + 1)
          => fragments'[Len(fragments')].hidden]_vars

\* a hidden quoted fragment that starts with its quote header and has no
\* line with a quote marker
C7_Witness ==
    /\ Returned
    /\ \E i \in 1..Len(Email) :
           LET ls == Split(Email[i].content)
           IN  /\ Email[i].quoted /\ Email[i].hidden
               /\ Len(ls) >= 2
               /\ quoteHeader(variant, reverseString(ls[1]))
               /\ \A k \in 1..Len(ls) : ~quotedRegexp(reverseString(ls[k]))

\* whether scanLine finds a signature, quote or quote-header marker on the
\* line l of a text
HasMarker(v, l) ==
    LET x == TrimLine(reverseString(l))
    IN  sigRegexp(x) \/ quotedRegexp(x) \/ quoteHeader(v, x)

\* a text without markers: no line with one, and no multi-line reply header
NoMarkers(v, t) ==
    /\ \A i \in 1..Len(Split(t)) : ~HasMarker(v, Split(t)[i])
    /\ FindOnWrote(t) = <<>>
    /\ FindDate(t) = <<>>

\* C8: when the rendered text holds no quote or signature marker, parsing
\* and rendering it again gives the same text.
C8_RenderIdempotent ==
    Returned =>
        LET r == String(Email)
        IN  NoMarkers(variant, r) => String(ParseEmail(variant, r)) = r

\* a rendering without markers that left out a hidden fragment
C8_Witness ==
    /\ Returned
    /\ NoMarkers(variant, String(Email))
    /\ Len(Split(String(Email))) >= 2
    /\ \E i \in 1..Len(Email) : Email[i].hidden /\ ~Blank(Email[i])


\* C9: every call of Parse starts on a parser with foundVisible false, no
\* open fragment and no closed fragment, and the Email it returns for a text
\* is the same whatever calls ran before: equal texts returned equal Emails,
\* each the Email of a new parser.
C9_CallsAreIndependent ==
    /\ pc = "normalize" =>
           foundVisible = FALSE /\ fragment = Nil /\ fragments = <<>>
    /\ \A a \in returned : \A b \in returned : a[1] = b[1] => a[2] = b[2]
    /\ Returned => Email = ParseEmail(variant, input)

\* a call that returns a hidden fragment after a call on another text that
\* found a visible one
C9_Witness ==
    /\ Returned
    /\ calls >= 2
    /\ Len(Email) >= 1
    /\ Email[Len(Email)].hidden /\ ~Blank(Email[Len(Email)])
    /\ \E r \in returned :
           /\ r[1] # input
           /\ \E i \in 1..Len(r[2]) : ~r[2][i].hidden



\* whether the step is a call of scanLine
ScanLineCalled == pc = "scan" /\ NextLine(variant, text, off).scan

\* C11: during a Parse foundVisible, once true, stays true in every later
\* state of the scan, and every fragment closed while it is true has
\* hidden = false.
C11_FoundVisibleSticky ==
    [][(pc \in {"scan", "finish"} /\ foundVisible)
       => (/\ foundVisible'
           /\ \A i \in (Len(fragments) + 1)..Len(fragments') :
                  ~fragments'[i].hidden)]_vars

\* a quoted fragment closed after a visible fragment and not hidden
C11_Witness ==
    /\ pc = "return"
    /\ foundVisible
    /\ \E i \in 1..Len(fragments) : \E j \in (i + 1)..Len(fragments) :
           /\ ~HiddenRule(fragments[i])
           /\ fragments[j].quoted /\ ~fragments[j].hidden


\* C12: while the lines are scanned the closed fragments do not change:
\* a step only appends to the list of closed fragments, and content,
\* quoted, signature, forwarded and hidden of every fragment closed before
\* stay as they were at its close.
C12_ClosedFragmentsImmutable ==
    [][(pc \in {"scan", "finish"})
       => (/\ Len(fragments') >= Len(fragments)
           /\ \A i \in 1..Len(fragments) :
                  /\ fragments'[i].content = fragments[i].content
                  /\ fragments'[i].quoted = fragments[i].quoted
                  /\ fragments'[i].signature = fragments[i].signature
                  /\ fragments'[i].forwarded = fragments[i].forwarded
                  /\ fragments'[i].hidden = fragments[i].hidden)]_vars

\* a hidden fragment closed before a visible one, with a third fragment
\* open: the first one stayed hidden
C12_Witness ==
    /\ pc = "finish"
    /\ fragment # Nil
    /\ Len(fragments) >= 2
    /\ fragments[1].hidden /\ ~Blank(fragments[1])
    /\ ~fragments[2].hidden
    /\ fragments[1].content # fragments[2].content


\* C13: after every call of scanLine a fragment is open (the parser has
\* one field for it, so it is exactly one), also when the blank line has
\* closed a signature or forwarded fragment.
C13_OneFragmentOpen ==
    [][ScanLineCalled => fragment' # Nil]_vars

\* the blank line that closed a signature fragment is the only line of the
\* open fragment
C13_Witness ==
    /\ pc = "scan"
    /\ off > 0
    /\ fragment # Nil
    /\ fragment.lines = <<<<>>>>
    /\ Len(fragments) >= 1
    /\ fragments[Len(fragments)].signature


\* the parser after the blank-line check of scanLine on the scanned line
AfterBoundary == BoundaryCheck(variant, P, ScannedLine)

\* the quoted flag of the open fragment at the continuation test
QuotedAtTest ==
    \/ AfterBoundary.fragment.quoted
    \/ variant = "reader" /\ quoteHeader(variant, ScannedLine)

\* the condition of C14 on the scanned line
ContinuationCondition ==
    /\ AfterBoundary.fragment # Nil
    /\ \/ QuotedAtTest = quotedRegexp(ScannedLine)
       \/ QuotedAtTest /\ (quoteHeader(variant, ScannedLine)
                            \/ ScannedLine = <<>>)

\* C14: scanLine adds the line to the open fragment iff a fragment is open
\* after the blank-line check and either its quoted flag equals the line's
\* quoted test, or it is quoted and the line is a quote header or blank;
\* otherwise the open fragment, if any, is closed and a new fragment is
\* opened with the line as its only line and the line's quoted test as its
\* quoted flag.
C14_ContinuationDecision ==
    [][ScanLineCalled
       => (IF ContinuationCondition
           THEN /\ fragment' # Nil
                /\ fragment'.lines =
                       Append(AfterBoundary.fragment.lines, ScannedLine)
                /\ fragments' = AfterBoundary.fragments
           ELSE /\ fragment' # Nil
                /\ fragment'.lines = <<ScannedLine>>
                /\ fragment'.quoted = quotedRegexp(ScannedLine)
                /\ Len(fragments') =
                       Len(AfterBoundary.fragments)
                       + (IF AfterBoundary.fragment # Nil THEN 1 ELSE 0))]_vars

\* a quoted fragment that took a blank line and then an unmarked line that
\* closed it
C14_Witness ==
    /\ pc = "finish"
    /\ fragment # Nil
    /\ ~fragment.quoted
    /\ Len(fragment.lines) = 1
    /\ Len(fragments) >= 1
    /\ LET f == fragments[Len(fragments)]
       IN  /\ f.quoted
           /\ Len(Split(f.content)) >= 2
           /\ Split(f.content)[1] = <<>>



\* the first line, in the order of the text, of a closed fragment, as
\* scanLine saw it
FirstLineScanned(f) == reverseString(Split(f.content)[1])

\* C15: a blank line scanned while the first line of the open fragment
\* matches the forwarded banner and the signature start closes the fragment
\* as forwarded and not as signature; no fragment, open or closed, is ever
\* both forwarded and signature.
C15_ForwardedBeforeSignature ==
    /\ [][(/\ ScanLineCalled
           /\ fragment # Nil
           /\ ScannedLine = <<>>
           /\ fwdRegexp(Last(fragment.lines))
           /\ sigRegexp(Last(fragment.lines)))
          => (/\ Len(fragments') = Len(fragments) + 1
              /\ fragments'[Len(fragments')].forwarded
              /\ ~fragments'[Len(fragments')].signature)]_vars
    /\ [][(\A i \in 1..Len(fragments') :
              ~(fragments'[i].forwarded /\ fragments'[i].signature))
          /\ (fragment' # Nil => ~fragment'.forwarded /\ ~fragment'.signature)
         ]_vars

\* a returned forwarded fragment whose banner line matches the signature
\* start as well
C15_Witness ==
    /\ Returned
    /\ \E i \in 1..Len(Email) :
           /\ Email[i].forwarded
           /\ ~Email[i].signature
           /\ fwdRegexp(FirstLineScanned(Email[i]))
           /\ sigRegexp(FirstLineScanned(Email[i]))



\* whether the step is a blank line scanned while a fragment is open whose
\* first line in the order of the text is such a marker line, and f is that
\* fragment closed, the blank line left to the fragment opened next
ClosedAtBlankLine(f, isForwarded) ==
    /\ ScanLineCalled
    /\ ScannedLine = <<>>
    /\ fragment # Nil
    /\ IF isForwarded
       THEN fwdRegexp(Last(fragment.lines))
       ELSE sigRegexp(Last(fragment.lines))
    /\ f.content = reverseString(Join(fragment.lines, <<NL>>))
    /\ fragments' = Append(fragments, f)
    /\ fragment' # Nil
    /\ fragment'.lines = <<ScannedLine>>

\* C16: a fragment closed with the signature (forwarded) flag was closed by
\* a blank line scanned while its first line in the order of the text
\* matched the signature start (forwarded banner); the blank line is not
\* part of it and its content begins with the marker line.  A fragment
\* closed in any other way, by a change of quoted-ness or at the end of the
\* input, has neither flag.
C16_FlaggedOnlyAtBlankLine ==
    [][(pc \in {"scan", "finish"})
       => \A i \in (Len(fragments) + 1)..Len(fragments') :
              LET f == fragments'[i]
              IN  /\ f.signature =>
                         /\ ClosedAtBlankLine(f, FALSE)
                         /\ sigRegexp(FirstLineScanned(f))
                  /\ f.forwarded =>
                         /\ ClosedAtBlankLine(f, TRUE)
                         /\ fwdRegexp(FirstLineScanned(f))]_vars

\* a signature fragment below a blank line, and above it a fragment that
\* begins the text with a signature start and was closed at the end of the
\* input without the flag
C16_Witness ==
    /\ Returned
    /\ Len(Email) >= 2
    /\ sigRegexp(FirstLineScanned(Email[1]))
    /\ ~Email[1].signature /\ ~Email[1].forwarded
    /\ Email[2].signature
    /\ sigRegexp(FirstLineScanned(Email[2]))



\* the lines of a closed fragment as scanLine saw them, in the order of the
\* text
LinesScanned(f) ==
    LET ls == Split(f.content)
    IN  [k \in 1..Len(ls) |-> reverseString(ls[k])]

\* whether the closed fragment was opened by a line without quote marker
\* and made quoted by a quote header scanned later (mailstrip.go:131-137)
MadeQuotedByHeader(f) ==
    LET ls == LinesScanned(f)
    IN  /\ f.quoted
        /\ ~quotedRegexp(ls[Len(ls)])
        /\ \E k \in 1..Len(ls) : quoteHeader(variant, ls[k])

\* C17 as stated: two adjacent fragments of the returned Email have the
\* same quoted flag only if the later one is flagged signature or forwarded.
C17_MaximalRuns ==
    Returned =>
        \A i \in 1..(Len(Email) - 1) :
            Email[i].quoted = Email[i + 1].quoted
                => Email[i + 1].signature \/ Email[i + 1].forwarded

\* C17: two adjacent fragments of the returned Email have the same quoted
\* flag only if the later one is flagged signature or forwarded, or both are
\* quoted and the earlier one was opened by a line without quote marker and
\* made quoted by a quote header above that line.
C17_MaximalRunsButHeader ==
    Returned =>
        \A i \in 1..(Len(Email) - 1) :
            Email[i].quoted = Email[i + 1].quoted
                => \/ Email[i + 1].signature
                   \/ Email[i + 1].forwarded
                   \/ Email[i + 1].quoted /\ MadeQuotedByHeader(Email[i])

\* two adjacent quoted fragments, the later one not flagged: a quote
\* header and an unmarked line above a quoted line
C17_Witness ==
    /\ Returned
    /\ Len(Email) = 2
    /\ Email[1].quoted /\ Email[2].quoted
    /\ ~Email[2].signature /\ ~Email[2].forwarded
    /\ MadeQuotedByHeader(Email[1])
    /\ quotedRegexp(LinesScanned(Email[2])[1])



\* whether the line scanLine saw is part of a quoted block by itself
QuotedBlockLine(l) ==
    quotedRegexp(l) \/ quoteHeader(variant, l) \/ l = <<>>

\* C18 as stated: every line of a quoted fragment passes the quoted-line
\* test, is a quote header or is blank.
C18_QuotedLinesAreMarked ==
    Returned =>
        \A i \in 1..Len(Email) :
            Email[i].quoted =>
                \A k \in 1..Len(LinesScanned(Email[i])) :
                    QuotedBlockLine(LinesScanned(Email[i])[k])

\* C18: every line of a quoted fragment passes the quoted-line test, is a
\* quote header, is blank, or lies below a quote header of the fragment.
C18_QuotedLinesAreMarkedOrBelowHeader ==
    Returned =>
        \A i \in 1..Len(Email) :
            Email[i].quoted =>
                LET ls == LinesScanned(Email[i])
                IN  \A k \in 1..Len(ls) :
                        \/ QuotedBlockLine(ls[k])
                        \/ \E j \in 1..(k - 1) : quoteHeader(variant, ls[j])

\* a quoted fragment of a quoted line, a quote header below it and an
\* unmarked line below the header
C18_Witness ==
    /\ Returned
    /\ \E i \in 1..Len(Email) :
           LET ls == LinesScanned(Email[i])
           IN  /\ Email[i].quoted
               /\ Len(ls) = 3
               /\ quotedRegexp(ls[1])
               /\ quoteHeader(variant, ls[2])
               /\ ~QuotedBlockLine(ls[3])



\* the start of the first "On ... wrote:" header of the text t, and the end
\* of that header: the first "wrote:" at a line end after the start
FirstHeaderStart(t) == SetMin({p \in 1..Len(t) : OnWroteEnds(t, p) # {}})
FirstHeaderEnd(t) == SetMin(OnWroteEnds(t, FirstHeaderStart(t)))

\* whether the text has a header that starts after the end of the first one
TwoHeaders(t) ==
    /\ FindOnWrote(t) # <<>>
    /\ \E p \in (FirstHeaderEnd(t) + 1)..Len(t) : OnWroteEnds(t, p) # {}

\* the text with the line breaks inside its first header removed and
\* nothing else changed
FirstHeaderCollapsed(t) ==
    LET a == FirstHeaderStart(t)
        b == FirstHeaderEnd(t)
    IN  SubSeq(t, 1, a - 1) \o Replace(SubSeq(t, a, b), <<NL>>, <<>>)
            \o SubSeq(t, b + 1, Len(t))

\* C19: when the text has two or more "On ... wrote:" headers, the
\* normalizer removes the line breaks inside the first header only; every
\* line break after the end of the first header is kept.
C19_OnlyFirstHeaderCollapsed ==
    LET t == NormalizeLineEndings(input)
    IN  (pc = "reverse" /\ TwoHeaders(t) /\ FindDate(t) = <<>>)
            => text = FirstHeaderCollapsed(t)



\* the number of lines of the closed fragments fs
RECURSIVE LinesClosed(_)
LinesClosed(fs) ==
    IF fs = <<>> THEN 0
    ELSE Len(Split(Head(fs).content)) + LinesClosed(Tail(fs))

\* the number of lines the fragments hold, the open one included
LinesHeld ==
    LinesClosed(fragments) + (IF fragment # Nil THEN Len(fragment.lines) ELSE 0)

\* the number of lines the reader has read up to its position
LinesRead == Cardinality({i \in 1..off : text[i] = NL})

\* whether the step takes the open fragment away: it closes it
LeavesFragment ==
    /\ pc \in {"scan", "finish"}
    /\ fragment # Nil
    /\ fragment' = Nil \/ (ScanLineCalled /\ Len(fragment'.lines) = 1)

\* the position of a statement of Parse in the order of the code
Rank(c) ==
    CASE c = "call" -> 0
      [] c = "normalize" -> 1
      [] c = "collapse" -> 2
      [] c = "reverse" -> 3
      [] c = "scan" -> 4
      [] c = "finish" -> 5
      [] c = "return" -> 6
      [] c = "done" -> 7

\* C20: Parse returns on every text: every step moves on in the code or,
\* in the loop over the lines, in the text, and it ends at the return.
\* It scans the lines of the reversed text, each once and in their order;
\* every fragment it opens is closed once, when the parser leaves it, and
\* is once in the returned Email; no fragment is open when Parse returns.
C20_TerminatesAllClosed ==
    /\ [][\/ Rank(pc') = Rank(pc) + 1
          \/ pc = "scan" /\ pc' = "scan" /\ off < off' /\ off' <= Len(text)
         ]_vars
    /\ [][/\ pc \in {"scan", "finish"} =>
                 text = reverseString(Normalized(variant, input))
          /\ pc = "scan" => LinesHeld = LinesRead
          /\ pc \in {"finish", "return"} => LinesHeld = Len(Split(text))
          /\ pc = "return" => fragment = Nil /\ fragment' = Nil
         ]_vars
    /\ [][ScanLineCalled
          => (/\ fragment' # Nil
              /\ Last(fragment'.lines) = TrimLine(Split(text)[LinesHeld + 1])
              /\ LinesHeld' = LinesHeld + 1)]_vars
    /\ [][LeavesFragment
          => (/\ Len(fragments') = Len(fragments) + 1
              /\ fragments'[Len(fragments')].content =
                     reverseString(Join(fragment.lines, <<NL>>))
              /\ SubSeq(fragments', 1, Len(fragments)) = fragments)]_vars
    /\ [][(pc \in {"scan", "finish"} /\ ~LeavesFragment)
          => fragments' = fragments]_vars
    /\ [][(pc = "return")
          => (/\ Len(fragments') = Len(fragments)
              /\ \A i \in 1..Len(fragments) :
                     fragments'[i] = fragments[Len(fragments) + 1 - i])]_vars

\* a returned Email of three lines in two or more fragments
C20_Witness ==
    /\ Returned
    /\ fragment = Nil
    /\ off = Len(text)
    /\ Len(Email) >= 2
    /\ LinesClosed(Email) = 3
    /\ \E i \in 1..Len(Email) : Len(Split(Email[i].content)) = 2



\* C21: whenever a fragment is open its line buffer holds at least one
\* line, so lines[len(lines)-1] of the blank-line check is a line of the
\* buffer; a closed fragment has given its lines up.
C21_OpenFragmentHasLine ==
    /\ fragment # Nil => Len(fragment.lines) >= 1
    /\ \A i \in 1..Len(fragments) : fragments[i].lines = <<>>
    /\ (pc = "scan" /\ fragment # Nil /\ ScannedLine = <<>>)
           => Len(fragment.lines) \in DOMAIN fragment.lines

\* a blank line is about to be scanned while the open fragment holds two
\* lines, a fragment closed before it
C21_Witness ==
    /\ pc = "scan"
    /\ fragment # Nil
    /\ Len(fragment.lines) = 2
    /\ ScannedLine = <<>>
    /\ Len(fragments) >= 1



\* the Email of one hidden fragment with empty content
OneHiddenEmpty(e) ==
    Len(e) = 1 /\ e[1].hidden /\ e[1].content = <<>>

\* C22 as stated: Parse returns at least one fragment for every text, and
\* for the empty text one hidden fragment with empty content.
C22_AtLeastOneFragment ==
    Returned =>
        /\ Len(Email) >= 1
        /\ input = <<>> => OneHiddenEmpty(Email)

\* whether the Scanner gives no line at all: the text is empty, or the
\* line scanned first fills the buffer
NoLineScanned(v, t) ==
    \/ t = <<>>
    \/ Len(ScannedLines(v, t)[1]) >= MaxScanTokenSize

\* C22: the reader revision of Parse returns at least one fragment for
\* every text, and for the empty text one hidden fragment with empty
\* content; the scanner revision returns no fragment exactly when it scans
\* no line: for the empty text, and when the line scanned first fills the
\* Scanner's buffer.
C22_AtLeastOneFragmentIfLineScanned ==
    Returned =>
        /\ variant = "reader" =>
               /\ Len(Email) >= 1
               /\ input = <<>> => OneHiddenEmpty(Email)
        /\ variant = "scanner" =>
               (Len(Email) = 0 <=> NoLineScanned(variant, input))

\* the reader revision has returned one hidden empty fragment for the empty
\* text
C22_Witness ==
    /\ Returned
    /\ variant = "reader"
    /\ input = <<>>
    /\ OneHiddenEmpty(Email)



\* whether no line of the closed fragment passes the quoted-line test
NoQuotedLine(f) ==
    \A k \in 1..Len(LinesScanned(f)) : ~quotedRegexp(LinesScanned(f)[k])

\* whether the step adds the scanned line to the open fragment
KeepsFragment ==
    /\ ScanLineCalled
    /\ fragment # Nil
    /\ fragment' # Nil
    /\ Len(fragment'.lines) = Len(fragment.lines) + 1

\* C23: a fragment of the returned Email with quoted = false has no line
\* that passes the quoted-line test.  While a fragment is open its quoted
\* flag never goes from true to false; it goes from false to true only when
\* a quote header is scanned into it; and the fragment is closed with the
\* flag it had.
C23_UnquotedHasNoQuotedLine ==
    /\ [](Returned =>
             \A i \in 1..Len(Email) : ~Email[i].quoted => NoQuotedLine(Email[i]))
    /\ [][KeepsFragment
          => (/\ fragment.quoted => fragment'.quoted
              /\ (~fragment.quoted /\ fragment'.quoted)
                     => quoteHeader(variant, ScannedLine))]_vars
    /\ [][LeavesFragment
          => fragments'[Len(fragments')].quoted = fragment.quoted]_vars

\* a returned fragment without quote of two lines above a fragment that a
\* quote header made quoted
C23_Witness ==
    /\ Returned
    /\ Len(Email) = 2
    /\ ~Email[1].quoted
    /\ Len(LinesScanned(Email[1])) >= 1
    /\ NoQuotedLine(Email[1])
    /\ MadeQuotedByHeader(Email[2])


=============================================================================
